---- MODULE Spec2Model ----
(***************************************************************************)
(* Observability and fault-injection layer of the e-commerce checkout      *)
(* backend (src/app.py).  The process-wide dictionaries metrics,           *)
(* fault_state and the lists response_time_history and log_history are     *)
(* shared by the request-handling threads of the server.  Each thread      *)
(* executes one Flask view at a time; a view is a sequence of steps, one   *)
(* per read or write of shared state, so that two views can interleave     *)
(* between any two accesses (the code takes no lock).                      *)
(*                                                                         *)
(* Time is counted in milliseconds.  metrics["total_response_time"] is     *)
(* kept in the same unit (the code keeps seconds and multiplies by 1000    *)
(* when it reports).  The wall-clock fields last_request_time,             *)
(* uptime_start and the "time"/"timestamp" strings are not modelled.       *)
(***************************************************************************)
EXTENDS Integers, Sequences, FiniteSets, TLC

VARIABLES
    metrics,                \* src/app.py:39  the counters
    response_time_history,  \* src/app.py:50  recent samples, oldest first
    fault_state,            \* src/app.py:54  simulated-failure switches
    log_history,            \* src/app.py:61  recent log entries, oldest first
    pc,                     \* per thread: the statement it executes next
    loc,                    \* per thread: the local variables of its view
    appended,               \* history: every sample ever appended, in order
    last_fault_op,          \* history: the last completed inject or recover call
    env                     \* the clients: who may call, and how often still

vars == <<metrics, response_time_history, fault_state, log_history,
          pc, loc, appended, last_fault_op, env>>

(***************************************************************************)
(* Bounds of the model.                                                    *)
(***************************************************************************)
\* calls the clients make to the threaded server
MaxCalls == 2
\* calls the clients make to the one-worker server
SerialCalls == 4
\* calls the clients make to the threaded server once its history is full
WarmCalls == 2
\* calls the clients make to the threaded server in a burst
BurstCalls == 3
\* calls the clients make to the one-worker server once its history is full
WarmSerialCalls == 3

\* the request-handling threads of the server
Threads == 1..2

(***************************************************************************)
(* Program constants.                                                      *)
(***************************************************************************)
MAX_HISTORY_POINTS == 20
MAX_LOG_ENTRIES == 100
DEFAULT_LATENCY_MS == 2000
FREE_SHIPPING_THRESHOLD == 200
SHIPPING_FEE == 60
\* the share of the error budget that one point of error rate uses up, per
\* window (src/app.py:407-409)
MONTHLY_FACTOR == 10
QUARTERLY_FACTOR == 5
ANNUAL_FACTOR == 2

\* Timing of the environment.
PAGE_MS == 50
CHECKOUT_MS == 300

\* latency_ms values an operator posts to /fault/inject (src/app.py:460)
LatencyInputs == {-1, 0, 500, DEFAULT_LATENCY_MS}
\* running time of a wrapped view, in ms: a page is rendered faster than a
\* checkout is processed
Duration(route) == IF route = "page" THEN PAGE_MS ELSE CHECKOUT_MS
FaultTypes == {"database_down", "high_latency", "all", "bogus"}
Routes == {"page", "checkout"}
\* the payment data posted to /checkout (src/app.py:704-707)
Forms == {"card_ok", "card_missing", "cod", "invalid"}

\* what a toggles file holds when a view loads it: no file, text that is not
\* JSON, or an object that sets every toggle to true or every toggle to false
ToggleFiles == {"missing", "malformed", "all_on", "all_off"}
ToggleNames == {"enable_cod", "enable_free_shipping_nudge"}

\* load_toggles of app.py (src/app.py:89-108): FileNotFoundError and
\* json.JSONDecodeError are caught and answered by the defaults
load_toggles(file) ==
    [raised |-> FALSE, toggles |-> [n \in ToggleNames |-> file = "all_on"]]

\* load_toggles of feature_flags.py (src/feature_flags.py:7-13): only
\* FileNotFoundError is caught, and answered by the empty dict
flags_load_toggles(file) ==
    IF file = "malformed" THEN [raised |-> TRUE, toggles |-> <<>>]
    ELSE IF file = "missing" THEN [raised |-> FALSE, toggles |-> <<>>]
    ELSE [raised |-> FALSE, toggles |-> [n \in ToggleNames |-> file = "all_on"]]

\* is_toggle_enabled (src/feature_flags.py:15-18): toggles.get(name, False)
is_toggle_enabled(file, feature_name) ==
    LET l == flags_load_toggles(file) IN
    IF l.raised THEN "raised"
    ELSE IF feature_name \in DOMAIN l.toggles /\ l.toggles[feature_name] THEN "enabled"
    ELSE "disabled"

\* feature_required (src/feature_flags.py:21-30): what a decorated route does
feature_required(file, feature_name) ==
    LET e == is_toggle_enabled(file, feature_name) IN
    IF e = "raised" THEN "raised" ELSE IF e = "enabled" THEN "view" ELSE "abort_404"

\* mock_cart (src/app.py:31): <<price, quantity>> of each item
mock_cart == << <<120, 1>>, <<60, 1>> >>

RECURSIVE SumItems(_)
SumItems(items) ==
    IF items = <<>> THEN 0
    ELSE items[1][1] * items[1][2] + SumItems(Tail(items))

\* calculate_cart_totals (src/app.py:169)
calculate_cart_totals(items) ==
    LET subtotal == SumItems(items)
        shipping_fee == IF subtotal >= FREE_SHIPPING_THRESHOLD THEN 0 ELSE SHIPPING_FEE
    IN  [subtotal |-> subtotal, shipping_fee |-> shipping_fee,
         total |-> subtotal + shipping_fee]

InitFault == [database_down |-> FALSE, high_latency |-> FALSE, latency_ms |-> 0]

NoFaultOp == [op |-> "none", ft |-> "none"]

NoResp == [status |-> 0, body |-> "none"]

\* the figures a read view has computed so far
NoOut ==
    [avg_trt |-> 0, avg_tr |-> 0, err_er |-> 0, err_tr |-> 0, system_health |-> 0,
     total_orders |-> 0, total_sales |-> 0, total_requests |-> 0, error_requests |-> 0,
     db_now |-> FALSE, db_is_down |-> FALSE, db_health |-> 0,
     is_degraded |-> FALSE, active_faults |-> <<>>, fault_state |-> InitFault,
     logs |-> <<>>, current_error_rate |-> 0, data_points |-> 0,
     error_rate |-> 0, monthly_remaining |-> 0, quarterly_remaining |-> 0,
     annual_remaining |-> 0]

\* the locals of a thread that runs no view
IdleLoc ==
    [op |-> "none", route |-> "none", reg |-> 0, slept |-> 0, elapsed |-> 0,
     trail |-> <<>>, resp |-> NoResp, ft |-> "none", lm |-> 0,
     recovered |-> <<>>, ret |-> "none", sliced |-> <<>>, trim |-> FALSE,
     entry |-> [level |-> "none", message |-> "none", category |-> "none", arg |-> 0],
     tr0 |-> 0, er0 |-> 0, fs0 |-> InitFault, db0 |-> FALSE, out |-> NoOut,
     toggles_file |-> "none", payment_method |-> "none"]

LogEntry(level, message, category, arg) ==
    [level |-> level, message |-> message, category |-> category, arg |-> arg]

Sample(value, is_error) == [value |-> value, is_error |-> is_error]

LastN(s, n) == IF Len(s) > n THEN SubSeq(s, Len(s) - n + 1, Len(s)) ELSE s

\* add_log (src/app.py:81-84), the list it computes: append, then keep the
\* last 100
add_log(h, e) ==
    LET a == Append(h, e)
    IN  IF Len(a) > MAX_LOG_ENTRIES THEN LastN(a, MAX_LOG_ENTRIES) ELSE a

InitMetrics ==
    [total_requests |-> 0, error_requests |-> 0, total_response_time |-> 0,
     orders_created |-> 0, total_sales |-> 0]

InitShared ==
    /\ metrics = InitMetrics
    /\ response_time_history = <<>>
    /\ fault_state = InitFault
    /\ log_history = <<>>
    /\ pc = [t \in Threads |-> "idle"]
    /\ loc = [t \in Threads |-> IdleLoc]
    /\ appended = <<>>
    /\ last_fault_op = NoFaultOp

\* the threaded server (app.run serves each request on its own thread)
Init ==
    /\ InitShared
    /\ env = [workers |-> Threads, calls |-> MaxCalls]

\* a call is handed to the first free worker thread
Accepts(t) ==
    /\ pc[t] = "idle" /\ t \in env.workers /\ env.calls > 0
    /\ \A u \in env.workers : u < t => pc[u] # "idle"

Goto(t, l) == pc' = [pc EXCEPT ![t] = l]
SetLoc(t, r) == loc' = [loc EXCEPT ![t] = r]

(***************************************************************************)
(* monitor_request.wrapper (src/app.py:116-163)                            *)
(***************************************************************************)

\* line 117: a request enters the wrapper, start_time = time.time();
\* line 118, the read of metrics["total_requests"] += 1
StartRequest(t) ==
    /\ Accepts(t)
    /\ \E r \in Routes :
        SetLoc(t, [IdleLoc EXCEPT !.op = "request", !.route = r,
                                  !.reg = metrics.total_requests,
                                  !.tr0 = metrics.total_requests,
                                  !.er0 = metrics.error_requests,
                                  !.fs0 = fault_state])
    /\ Goto(t, "w_tr_store")
    /\ env' = [env EXCEPT !.calls = @ - 1]
    /\ UNCHANGED <<metrics, response_time_history, fault_state, log_history,
                   appended, last_fault_op>>

\* a wrapper that asks for database_down before it injects the latency, and
\* so answers a request of an outage without the delay
StoreTotalRequests_DatabaseCheckFirst(t) ==
    /\ pc[t] = "w_tr_store"
    /\ metrics' = [metrics EXCEPT !.total_requests = loc[t].reg + 1]
    /\ SetLoc(t, [loc[t] EXCEPT !.db0 = fault_state.database_down])
    /\ Goto(t, IF fault_state.database_down THEN "w_db" ELSE "w_lat_flag")
    /\ UNCHANGED <<response_time_history, fault_state, log_history, appended, last_fault_op, env>>

\* line 118, the write of metrics["total_requests"] += 1
StoreTotalRequests(t) ==
    /\ pc[t] = "w_tr_store"
    /\ metrics' = [metrics EXCEPT !.total_requests = loc[t].reg + 1]
    /\ SetLoc(t, [loc[t] EXCEPT !.db0 = fault_state.database_down])
    /\ Goto(t, "w_lat_flag")
    /\ UNCHANGED <<response_time_history, fault_state, log_history, appended, last_fault_op, env>>

\* line 122, left operand: fault_state["high_latency"]
CheckLatencyFlag(t) ==
    /\ pc[t] = "w_lat_flag"
    /\ Goto(t, IF fault_state.high_latency THEN "w_lat_ms" ELSE "w_db")
    /\ UNCHANGED <<metrics, response_time_history, fault_state, log_history, loc, appended, last_fault_op, env>>

\* line 122, right operand: fault_state["latency_ms"] > 0
CheckLatencyMs(t) ==
    /\ pc[t] = "w_lat_ms"
    /\ Goto(t, IF fault_state.latency_ms > 0 THEN "w_sleep" ELSE "w_db")
    /\ UNCHANGED <<metrics, response_time_history, fault_state, log_history, loc, appended, last_fault_op, env>>

\* a wrapper that never sleeps
Sleep_Skipped(t) ==
    /\ pc[t] = "w_sleep"
    /\ Goto(t, "w_db")
    /\ UNCHANGED <<metrics, response_time_history, fault_state, log_history, loc,
                   appended, last_fault_op, env>>

\* line 123: time.sleep(fault_state["latency_ms"] / 1000).  The value is read
\* again; time.sleep raises ValueError on a negative one, outside the try.
Sleep(t) ==
    /\ pc[t] = "w_sleep"
    /\ IF fault_state.latency_ms < 0
       THEN /\ SetLoc(t, [loc[t] EXCEPT !.resp = [status |-> 500, body |-> "raised"]])
            /\ Goto(t, "done")
       ELSE /\ SetLoc(t, [loc[t] EXCEPT !.slept = fault_state.latency_ms,
                                        !.elapsed = @ + fault_state.latency_ms,
                                        !.trail = Append(@, "sleep")])
            /\ Goto(t, "w_db")
    /\ UNCHANGED <<metrics, response_time_history, fault_state, log_history, appended, last_fault_op, env>>

\* a wrapper that consults database_down for the page views only
CheckDatabaseDown_PageOnly(t) ==
    /\ pc[t] = "w_db"
    /\ LET down == fault_state.database_down /\ loc[t].route = "page" IN
        /\ SetLoc(t, [loc[t] EXCEPT !.trail = Append(@, IF down THEN "db_down" ELSE "db_up")])
        /\ Goto(t, IF down THEN "sc_er_load" ELSE "h_call")
    /\ UNCHANGED <<metrics, response_time_history, fault_state, log_history, appended, last_fault_op, env>>

\* line 127: if fault_state["database_down"]
CheckDatabaseDown(t) ==
    /\ pc[t] = "w_db"
    /\ SetLoc(t, [loc[t] EXCEPT !.trail = Append(@, IF fault_state.database_down
                                                    THEN "db_down" ELSE "db_up")])
    /\ Goto(t, IF fault_state.database_down THEN "sc_er_load" ELSE "h_call")
    /\ UNCHANGED <<metrics, response_time_history, fault_state, log_history, appended, last_fault_op, env>>

\* line 128, the read of metrics["error_requests"] += 1
ShortCircuitLoadErrors(t) ==
    /\ pc[t] = "sc_er_load"
    /\ SetLoc(t, [loc[t] EXCEPT !.reg = metrics.error_requests])
    /\ Goto(t, "sc_er_store")
    /\ UNCHANGED <<metrics, response_time_history, fault_state, log_history, appended, last_fault_op, env>>

\* a short-circuit that ends the outage once it has failed a request
ShortCircuitStoreErrors_Heals(t) ==
    /\ pc[t] = "sc_er_store"
    /\ metrics' = [metrics EXCEPT !.error_requests = loc[t].reg + 1]
    /\ fault_state' = [fault_state EXCEPT !.database_down = FALSE]
    /\ Goto(t, "sc_append")
    /\ UNCHANGED <<response_time_history, log_history, loc, appended, last_fault_op, env>>

\* line 128, the write of metrics["error_requests"] += 1
ShortCircuitStoreErrors(t) ==
    /\ pc[t] = "sc_er_store"
    /\ metrics' = [metrics EXCEPT !.error_requests = loc[t].reg + 1]
    /\ Goto(t, "sc_append")
    /\ UNCHANGED <<response_time_history, fault_state, log_history, loc, appended, last_fault_op, env>>

\* lines 129-134: the error sample, its value the time elapsed so far
ShortCircuitAppend(t) ==
    /\ pc[t] = "sc_append"
    /\ response_time_history' =
           Append(response_time_history, Sample(loc[t].elapsed, TRUE))
    /\ appended' = Append(appended, Sample(loc[t].elapsed, TRUE))
    /\ Goto(t, "sc_evict")
    /\ UNCHANGED <<metrics, fault_state, log_history, loc, last_fault_op, env>>

\* an eviction that drops the newest sample (pop() for pop(0))
Evict_Newest(h) ==
    IF Len(h) > MAX_HISTORY_POINTS THEN SubSeq(h, 1, Len(h) - 1) ELSE h

\* lines 135-136 and 156-157: if len(...) > MAX_HISTORY_POINTS: pop(0)
Evict(h) == IF Len(h) > MAX_HISTORY_POINTS THEN Tail(h) ELSE h

\* lines 135-136; add_log (line 137) is entered with the 503 response of
\* lines 139-143 as what follows it
ShortCircuitEvict(t) ==
    /\ pc[t] = "sc_evict"
    /\ response_time_history' = Evict(response_time_history)
    /\ SetLoc(t, [loc[t] EXCEPT
           !.entry = LogEntry("error", "db_connection_failed", "error", 0),
           !.resp = [status |-> 503, body |-> "DB_CONNECTION_FAILED"],
           !.ret = "done"])
    /\ Goto(t, "log")
    /\ UNCHANGED <<metrics, fault_state, log_history, appended, last_fault_op, env>>

\* add_log (lines 64-86), called at lines 137, 162, 464, 475, 517, 523.
\* Line 81: log_history.append(log_entry); line 83: the length is compared
\* with 100; line 84, right-hand side: log_history[-100:] is a new list that
\* only this thread holds until it is bound to the global name.
AddLog(t) ==
    /\ pc[t] = "log"
    /\ LET a == Append(log_history, loc[t].entry) IN
        /\ log_history' = a
        /\ SetLoc(t, [loc[t] EXCEPT !.trim = Len(a) > MAX_LOG_ENTRIES,
                                    !.sliced = IF Len(a) > MAX_LOG_ENTRIES
                                               THEN add_log(log_history, loc[t].entry)
                                               ELSE <<>>])
    /\ Goto(t, "log_bind")
    /\ UNCHANGED <<metrics, response_time_history, fault_state, appended, last_fault_op, env>>

\* line 84, left-hand side: the global name log_history is bound to the new
\* list (when the list was found longer than 100); line 86 prints; return
AddLogBind(t) ==
    /\ pc[t] = "log_bind"
    /\ log_history' = IF loc[t].trim THEN loc[t].sliced ELSE log_history
    /\ SetLoc(t, [loc[t] EXCEPT !.trim = FALSE, !.sliced = <<>>])
    /\ Goto(t, loc[t].ret)
    /\ UNCHANGED <<metrics, response_time_history, fault_state, appended, last_fault_op, env>>

\* line 145 for the views that render a page (index, checkout_options,
\* payment, success): the view returns its page after some time, or raises
CallPage(t) ==
    /\ pc[t] = "h_call" /\ loc[t].route = "page"
    /\ \E raises \in BOOLEAN :
        LET d == Duration(loc[t].route) IN
        IF raises
        THEN /\ SetLoc(t, [loc[t] EXCEPT !.trail = @ \o <<"handler", "raised">>,
                                         !.elapsed = @ + d])
             /\ Goto(t, "ex_er_load")
        ELSE /\ SetLoc(t, [loc[t] EXCEPT !.trail = @ \o <<"handler", "returned">>,
                                         !.elapsed = @ + d,
                                         !.resp = [status |-> 200, body |-> "page"]])
             /\ Goto(t, "ok_trt_load")
    /\ UNCHANGED <<metrics, response_time_history, fault_state, log_history, appended, last_fault_op, env>>

\* checkout (lines 697-732 and 753-757): toggles, form and validation.  An
\* exception inside the view is caught by the view itself and answered 500.
\* toggles_file and payment_method are what the view has loaded and been
\* posted; they are kept until the view has accepted the order (nothing reads
\* them after line 732).
CheckoutValidate(t) ==
    /\ pc[t] = "h_call" /\ loc[t].route = "checkout"
    /\ \E form \in Forms, file \in ToggleFiles, fails \in BOOLEAN :
        LET d == Duration(loc[t].route)
            enable_cod == load_toggles(file).toggles["enable_cod"]
            l == [loc[t] EXCEPT !.trail = Append(@, "handler"), !.elapsed = @ + d]
            refuse(st, b) ==
                /\ SetLoc(t, [l EXCEPT !.resp = [status |-> st, body |-> b],
                                       !.trail = Append(@, "returned")])
                /\ Goto(t, "ok_trt_load")
        IN  IF fails THEN refuse(500, "system_error")
            ELSE IF form = "cod" /\ ~enable_cod THEN refuse(403, "FEATURE_DISABLED")
            ELSE IF form = "card_missing" THEN refuse(400, "card_incomplete")
            ELSE IF form = "invalid" THEN refuse(400, "invalid_payment")
            ELSE /\ SetLoc(t, [l EXCEPT !.toggles_file = file, !.payment_method = form])
                 /\ Goto(t, "co_oc_load")
    /\ UNCHANGED <<metrics, response_time_history, fault_state, log_history, appended, last_fault_op, env>>

\* line 735, the read of metrics["orders_created"] += 1
CheckoutLoadOrders(t) ==
    /\ pc[t] = "co_oc_load"
    /\ SetLoc(t, [loc[t] EXCEPT !.reg = metrics.orders_created,
                                !.toggles_file = "none", !.payment_method = "none"])
    /\ Goto(t, "co_oc_store")
    /\ UNCHANGED <<metrics, response_time_history, fault_state, log_history, appended, last_fault_op, env>>

\* line 735, the write
CheckoutStoreOrders(t) ==
    /\ pc[t] = "co_oc_store"
    /\ metrics' = [metrics EXCEPT !.orders_created = loc[t].reg + 1]
    /\ Goto(t, "co_ts_load")
    /\ UNCHANGED <<response_time_history, fault_state, log_history, loc, appended, last_fault_op, env>>

\* line 736, the read of metrics["total_sales"] += cart_data["total"]
CheckoutLoadSales(t) ==
    /\ pc[t] = "co_ts_load"
    /\ SetLoc(t, [loc[t] EXCEPT !.reg = metrics.total_sales])
    /\ Goto(t, "co_ts_store")
    /\ UNCHANGED <<metrics, response_time_history, fault_state, log_history, appended, last_fault_op, env>>

\* line 736, the write; lines 738-751, the order response
CheckoutStoreSales(t) ==
    /\ pc[t] = "co_ts_store"
    /\ metrics' = [metrics EXCEPT
           !.total_sales = loc[t].reg + calculate_cart_totals(mock_cart).total]
    /\ SetLoc(t, [loc[t] EXCEPT !.resp = [status |-> 200, body |-> "order"],
                                !.trail = Append(@, "returned")])
    /\ Goto(t, "ok_trt_load")
    /\ UNCHANGED <<response_time_history, fault_state, log_history, appended, last_fault_op, env>>

\* lines 146-148, the read of metrics["total_response_time"] += response_time
SuccessLoadResponseTime(t) ==
    /\ pc[t] = "ok_trt_load"
    /\ SetLoc(t, [loc[t] EXCEPT !.reg = metrics.total_response_time])
    /\ Goto(t, "ok_trt_store")
    /\ UNCHANGED <<metrics, response_time_history, fault_state, log_history, appended, last_fault_op, env>>

\* line 148, the write
SuccessStoreResponseTime(t) ==
    /\ pc[t] = "ok_trt_store"
    /\ metrics' = [metrics EXCEPT !.total_response_time = loc[t].reg + loc[t].elapsed]
    /\ Goto(t, "ok_append")
    /\ UNCHANGED <<response_time_history, fault_state, log_history, loc, appended, last_fault_op, env>>

\* lines 151-155: the sample of a view that returned
SuccessAppend(t) ==
    /\ pc[t] = "ok_append"
    /\ response_time_history' =
           Append(response_time_history, Sample(loc[t].elapsed, FALSE))
    /\ appended' = Append(appended, Sample(loc[t].elapsed, FALSE))
    /\ Goto(t, "ok_evict")
    /\ UNCHANGED <<metrics, fault_state, log_history, loc, last_fault_op, env>>

\* a wrapper that asks for database_down once more before it returns
SuccessEvict_Recheck(t) ==
    /\ pc[t] = "ok_evict"
    /\ response_time_history' = Evict(response_time_history)
    /\ SetLoc(t, IF fault_state.database_down
                 THEN [loc[t] EXCEPT !.resp = [status |-> 503, body |-> "DB_CONNECTION_FAILED"]]
                 ELSE loc[t])
    /\ Goto(t, "done")
    /\ UNCHANGED <<metrics, fault_state, log_history, appended, last_fault_op, env>>

\* lines 156-159: evict, return the view's result
SuccessEvict(t) ==
    /\ pc[t] = "ok_evict"
    /\ response_time_history' = Evict(response_time_history)
    /\ Goto(t, "done")
    /\ UNCHANGED <<metrics, fault_state, log_history, loc, appended, last_fault_op, env>>

\* an except branch that answers with an error page of its own
ExceptLoadErrors_Swallows(t) ==
    /\ pc[t] = "ex_er_load"
    /\ SetLoc(t, [loc[t] EXCEPT !.resp = [status |-> 500, body |-> "error_page"]])
    /\ Goto(t, "ok_trt_load")
    /\ UNCHANGED <<metrics, response_time_history, fault_state, log_history, appended, last_fault_op, env>>

\* line 161, the read of metrics["error_requests"] += 1
ExceptLoadErrors(t) ==
    /\ pc[t] = "ex_er_load"
    /\ SetLoc(t, [loc[t] EXCEPT !.reg = metrics.error_requests])
    /\ Goto(t, "ex_er_store")
    /\ UNCHANGED <<metrics, response_time_history, fault_state, log_history, appended, last_fault_op, env>>

\* an except branch that also accounts the time of the failed request
ExceptStoreErrors_AddsTime(t) ==
    /\ pc[t] = "ex_er_store"
    /\ metrics' = [metrics EXCEPT !.error_requests = loc[t].reg + 1,
                                  !.total_response_time = @ + loc[t].elapsed]
    /\ SetLoc(t, [loc[t] EXCEPT
           !.entry = LogEntry("error", "request_failed", "error", 0),
           !.resp = [status |-> 500, body |-> "raised"],
           !.ret = "done"])
    /\ Goto(t, "log")
    /\ UNCHANGED <<response_time_history, fault_state, log_history, appended, last_fault_op, env>>

\* line 161, the write; add_log (line 162) is entered with the raise of
\* line 163 as what follows it
ExceptStoreErrors(t) ==
    /\ pc[t] = "ex_er_store"
    /\ metrics' = [metrics EXCEPT !.error_requests = loc[t].reg + 1]
    /\ SetLoc(t, [loc[t] EXCEPT
           !.entry = LogEntry("error", "request_failed", "error", 0),
           !.resp = [status |-> 500, body |-> "raised"],
           !.ret = "done"])
    /\ Goto(t, "log")
    /\ UNCHANGED <<response_time_history, fault_state, log_history, appended, last_fault_op, env>>

(***************************************************************************)
(* inject_fault (src/app.py:441-494)                                       *)
(***************************************************************************)

\* an inject that switches the database fault over
InjectDatabaseDown_Toggles(t) ==
    /\ Accepts(t)
    /\ fault_state' = [fault_state EXCEPT !.database_down = ~@]
    /\ SetLoc(t, [IdleLoc EXCEPT !.op = "inject", !.ft = "database_down",
           !.fs0 = fault_state,
           !.entry = LogEntry("error", "fault_injected_database", "system", 0),
           !.ret = "inj_return"])
    /\ Goto(t, "log")
    /\ env' = [env EXCEPT !.calls = @ - 1]
    /\ UNCHANGED <<metrics, response_time_history, log_history, appended, last_fault_op>>

\* lines 458-464: fault_type is database_down (also the default); the flag
\* is set, then the arguments of add_log
InjectDatabaseDown(t) ==
    /\ Accepts(t)
    /\ fault_state' = [fault_state EXCEPT !.database_down = TRUE]
    /\ SetLoc(t, [IdleLoc EXCEPT !.op = "inject", !.ft = "database_down",
           !.fs0 = fault_state,
           !.entry = LogEntry("error", "fault_injected_database", "system", 0),
           !.ret = "inj_return"])
    /\ Goto(t, "log")
    /\ env' = [env EXCEPT !.calls = @ - 1]
    /\ UNCHANGED <<metrics, response_time_history, log_history, appended, last_fault_op>>

\* lines 458-473: fault_type is high_latency; the flag is set first
InjectHighLatency(t) ==
    /\ Accepts(t)
    /\ \E ms \in LatencyInputs :
        SetLoc(t, [IdleLoc EXCEPT !.op = "inject", !.ft = "high_latency",
                                  !.fs0 = fault_state, !.lm = ms])
    /\ fault_state' = [fault_state EXCEPT !.high_latency = TRUE]
    /\ Goto(t, "inj_lm")
    /\ env' = [env EXCEPT !.calls = @ - 1]
    /\ UNCHANGED <<metrics, response_time_history, log_history, appended, last_fault_op>>

\* line 474: fault_state["latency_ms"] = latency_ms; then the arguments of
\* add_log at line 475
InjectStoreLatency(t) ==
    /\ pc[t] = "inj_lm"
    /\ fault_state' = [fault_state EXCEPT !.latency_ms = loc[t].lm]
    /\ SetLoc(t, [loc[t] EXCEPT
           !.entry = LogEntry("warning", "fault_injected_latency", "system", loc[t].lm),
           !.ret = "inj_return"])
    /\ Goto(t, "log")
    /\ UNCHANGED <<metrics, response_time_history, log_history, appended, last_fault_op, env>>

\* an inject that takes an unknown fault_type for the default one
InjectUnknown_AsDefault(t) ==
    /\ Accepts(t)
    /\ fault_state' = [fault_state EXCEPT !.database_down = TRUE]
    /\ SetLoc(t, [IdleLoc EXCEPT !.op = "inject", !.ft = "bogus",
                                 !.fs0 = fault_state,
                                 !.resp = [status |-> 400, body |-> "unknown_fault"]])
    /\ Goto(t, "done")
    /\ env' = [env EXCEPT !.calls = @ - 1]
    /\ UNCHANGED <<metrics, response_time_history, log_history, appended, last_fault_op>>

\* lines 484-488: any other fault_type is answered 400
InjectUnknown(t) ==
    /\ Accepts(t)
    /\ SetLoc(t, [IdleLoc EXCEPT !.op = "inject", !.ft = "bogus",
                                 !.fs0 = fault_state,
                                 !.resp = [status |-> 400, body |-> "unknown_fault"]])
    /\ Goto(t, "done")
    /\ env' = [env EXCEPT !.calls = @ - 1]
    /\ UNCHANGED <<metrics, response_time_history, fault_state, log_history,
                   appended, last_fault_op>>

\* lines 465-470 and 476-482: the success payload
InjectReturn(t) ==
    /\ pc[t] = "inj_return"
    /\ SetLoc(t, [loc[t] EXCEPT !.resp = [status |-> 200, body |-> "injected"]])
    /\ Goto(t, "done")
    /\ UNCHANGED <<metrics, response_time_history, fault_state, log_history,
                   appended, last_fault_op, env>>

(***************************************************************************)
(* recover_fault (src/app.py:497-543)                                      *)
(***************************************************************************)

\* lines 509-512: fault_type, "all" when none is given; recovered = []
StartRecover(t) ==
    /\ Accepts(t)
    /\ \E ft \in FaultTypes :
        SetLoc(t, [IdleLoc EXCEPT !.op = "recover", !.ft = ft, !.fs0 = fault_state])
    /\ Goto(t, "rec_db")
    /\ env' = [env EXCEPT !.calls = @ - 1]
    /\ UNCHANGED <<metrics, response_time_history, fault_state, log_history,
                   appended, last_fault_op>>

\* a recovery that clears database_down without asking whether it is set
RecoverCheckDatabase_Unconditional(t) ==
    /\ pc[t] = "rec_db"
    /\ Goto(t, IF loc[t].ft \in {"database_down", "all"} THEN "rec_db_store" ELSE "rec_hl")
    /\ UNCHANGED <<metrics, response_time_history, fault_state, log_history, loc,
                   appended, last_fault_op, env>>

\* line 514
RecoverCheckDatabase(t) ==
    /\ pc[t] = "rec_db"
    /\ Goto(t, IF loc[t].ft \in {"database_down", "all"} /\ fault_state.database_down
               THEN "rec_db_store" ELSE "rec_hl")
    /\ UNCHANGED <<metrics, response_time_history, fault_state, log_history, loc,
                   appended, last_fault_op, env>>

\* a recovery of the database that ends the latency fault with it
RecoverStoreDatabase_ClearsBoth(t) ==
    /\ pc[t] = "rec_db_store"
    /\ fault_state' = [fault_state EXCEPT !.database_down = FALSE, !.high_latency = FALSE]
    /\ SetLoc(t, [loc[t] EXCEPT
           !.recovered = Append(@, "database_down"),
           !.entry = LogEntry("success", "recovery_database", "system", 0),
           !.ret = "rec_hl"])
    /\ Goto(t, "log")
    /\ UNCHANGED <<metrics, response_time_history, log_history, appended, last_fault_op, env>>

\* lines 515-516, then the arguments of add_log at line 517
RecoverStoreDatabase(t) ==
    /\ pc[t] = "rec_db_store"
    /\ fault_state' = [fault_state EXCEPT !.database_down = FALSE]
    /\ SetLoc(t, [loc[t] EXCEPT
           !.recovered = Append(@, "database_down"),
           !.entry = LogEntry("success", "recovery_database", "system", 0),
           !.ret = "rec_hl"])
    /\ Goto(t, "log")
    /\ UNCHANGED <<metrics, response_time_history, log_history, appended, last_fault_op, env>>

\* a recovery that handles high_latency in an elif of the database branch
RecoverCheckLatency_Elif(t) ==
    /\ pc[t] = "rec_hl"
    /\ Goto(t, IF loc[t].ft \in {"high_latency", "all"} /\ fault_state.high_latency
                  /\ loc[t].recovered = <<>>
               THEN "rec_hl_store" ELSE "rec_return")
    /\ UNCHANGED <<metrics, response_time_history, fault_state, log_history, loc,
                   appended, last_fault_op, env>>

\* line 519
RecoverCheckLatency(t) ==
    /\ pc[t] = "rec_hl"
    /\ Goto(t, IF loc[t].ft \in {"high_latency", "all"} /\ fault_state.high_latency
               THEN "rec_hl_store" ELSE "rec_return")
    /\ UNCHANGED <<metrics, response_time_history, fault_state, log_history, loc,
                   appended, last_fault_op, env>>

\* line 520
RecoverStoreFlag(t) ==
    /\ pc[t] = "rec_hl_store"
    /\ fault_state' = [fault_state EXCEPT !.high_latency = FALSE]
    /\ Goto(t, "rec_lm_store")
    /\ UNCHANGED <<metrics, response_time_history, log_history, loc, appended,
                   last_fault_op, env>>

\* lines 521-522, then the arguments of add_log at line 523
RecoverStoreLatency(t) ==
    /\ pc[t] = "rec_lm_store"
    /\ fault_state' = [fault_state EXCEPT !.latency_ms = 0]
    /\ SetLoc(t, [loc[t] EXCEPT
           !.recovered = Append(@, "high_latency"),
           !.entry = LogEntry("success", "recovery_latency", "system", 0),
           !.ret = "rec_return"])
    /\ Goto(t, "log")
    /\ UNCHANGED <<metrics, response_time_history, log_history, appended, last_fault_op, env>>

\* lines 525-537: "info" when nothing was recovered, else the recovered list
RecoverReturn(t) ==
    /\ pc[t] = "rec_return"
    /\ SetLoc(t, [loc[t] EXCEPT !.resp =
           [status |-> 200,
            body |-> IF loc[t].recovered = <<>> THEN "nothing_to_recover" ELSE "recovered"]])
    /\ Goto(t, "done")
    /\ UNCHANGED <<metrics, response_time_history, fault_state, log_history,
                   appended, last_fault_op, env>>

(***************************************************************************)
(* The figures of the dashboard.  A quotient n/d is kept exact and rounded *)
(* once, where the code calls round().                                     *)
(***************************************************************************)
Max(a, b) == IF a >= b THEN a ELSE b
Min(a, b) == IF a <= b THEN a ELSE b

\* the integer nearest to n/d (d > 0), a tie going to the even one
RoundDiv(n, d) ==
    LET m == IF n < 0 THEN -n ELSE n
        q == m \div d
        r == m % d
        a == IF 2 * r < d THEN q
             ELSE IF 2 * r > d THEN q + 1
             ELSE IF q % 2 = 0 THEN q ELSE q + 1
    IN  IF n < 0 THEN -a ELSE a

\* a system_health that weighs the error rate as base_health does (by 2)
SystemHealth_Weight2(trt, tr1, er, tr2) ==
    LET d1 == Max(tr1, 1)
        d2 == Max(tr2, 1)
        den == 50 * d1 * d2
        errn == IF tr2 > 0 THEN er ELSE 0
        avgn == IF tr1 > 0 THEN trt ELSE 0
        pen == IF avgn > 200 * d1 THEN (avgn - 200 * d1) * d2 ELSE 0
        num == 100 * den - 200 * errn * 50 * d1 - pen
    IN  RoundDiv(10 * Max(0, Min(100 * den, num)), den)

\* get_metrics, lines 376-399: system_health in tenths, as round(.., 1) gives
\* it.  avg_response_time is trt/tr1 ms, error_rate is 100*er/tr2.
SystemHealth(trt, tr1, er, tr2) ==
    LET d1 == Max(tr1, 1)
        d2 == Max(tr2, 1)
        den == 50 * d1 * d2
        errn == IF tr2 > 0 THEN er ELSE 0
        avgn == IF tr1 > 0 THEN trt ELSE 0
        pen == IF avgn > 200 * d1 THEN (avgn - 200 * d1) * d2 ELSE 0
        num == 100 * den - 500 * errn * 50 * d1 - pen
    IN  RoundDiv(10 * Max(0, Min(100 * den, num)), den)

\* get_services, lines 603-618: base_health as the exact quotient <<n, d>>
BaseHealth(trt, tr1, er, tr2) ==
    LET d1 == Max(tr1, 1)
        d2 == Max(tr2, 1)
        den == 100 * d1 * d2
        errn == IF tr2 > 0 THEN er ELSE 0
        avgn == IF tr1 > 0 THEN trt ELSE 0
        pen == IF avgn > 200 * d1 THEN (avgn - 200 * d1) * d2 ELSE 0
        num == 100 * den - 200 * errn * 100 * d1 - pen
    IN  <<Max(0, Min(100 * den, num)), den>>

\* get_services, line 633: db_health in tenths
DbHealth(db_is_down, base) ==
    IF db_is_down THEN 0 ELSE RoundDiv(10 * (base[1] - base[2]), base[2])

\* an error rate that counts the failures per successful request
ErrorRate_PerSuccess(er, tr) ==
    IF tr > 0 THEN (IF tr > er THEN RoundDiv(10000 * er, tr - er) ELSE 10000) ELSE 0

\* get_metrics, lines 381-383 and 414: error_rate in hundredths of a percent,
\* as round(.., 2) gives it
ErrorRate(er, tr) ==
    IF tr > 0 THEN RoundDiv(10000 * er, tr) ELSE 0

\* the share of the budget that is used up, reported as what remains
BudgetRemaining_Used(er, tr, k) ==
    LET d == Max(tr, 1)
        errn == IF tr > 0 THEN er ELSE 0
    IN  RoundDiv(10 * Min(100 * d, 100 * errn * k), d)

\* get_metrics, lines 407-409 and 424-426: what is left of an error budget,
\* in tenths, as round(max(0, 100 - min(100, error_rate * k)), 1) gives it
BudgetRemaining(er, tr, k) ==
    LET d == Max(tr, 1)
        errn == IF tr > 0 THEN er ELSE 0
        used == Min(100 * d, 100 * errn * k)
    IN  RoundDiv(10 * Max(0, 100 * d - used), d)

(***************************************************************************)
(* get_metrics (src/app.py:366-434)                                        *)
(***************************************************************************)

\* lines 376-378: avg_response_time
StartMetrics(t) ==
    /\ Accepts(t)
    /\ SetLoc(t, [IdleLoc EXCEPT !.op = "metrics",
           !.out = [@ EXCEPT !.avg_trt = metrics.total_response_time,
                             !.avg_tr = metrics.total_requests]])
    /\ Goto(t, "m_err")
    /\ env' = [env EXCEPT !.calls = @ - 1]
    /\ UNCHANGED <<metrics, response_time_history, fault_state, log_history,
                   appended, last_fault_op>>

\* lines 381-383: error_rate; lines 395-399: system_health; lines 407-409:
\* the error budgets
MetricsErrorRate(t) ==
    /\ pc[t] = "m_err"
    /\ SetLoc(t, [loc[t] EXCEPT !.out = [@ EXCEPT
           !.err_er = metrics.error_requests,
           !.err_tr = metrics.total_requests,
           !.error_rate = ErrorRate(metrics.error_requests, metrics.total_requests),
           !.monthly_remaining = BudgetRemaining(metrics.error_requests,
                                     metrics.total_requests, MONTHLY_FACTOR),
           !.quarterly_remaining = BudgetRemaining(metrics.error_requests,
                                       metrics.total_requests, QUARTERLY_FACTOR),
           !.annual_remaining = BudgetRemaining(metrics.error_requests,
                                    metrics.total_requests, ANNUAL_FACTOR),
           !.system_health = SystemHealth(loc[t].out.avg_trt, loc[t].out.avg_tr,
                                          metrics.error_requests, metrics.total_requests),
           !.db_now = fault_state.database_down]])
    /\ Goto(t, "m_orders")
    /\ UNCHANGED <<metrics, response_time_history, fault_state, log_history,
                   appended, last_fault_op, env>>

\* line 416
MetricsReadOrders(t) ==
    /\ pc[t] = "m_orders"
    /\ SetLoc(t, [loc[t] EXCEPT !.out = [@ EXCEPT !.total_orders = metrics.orders_created]])
    /\ Goto(t, "m_sales")
    /\ UNCHANGED <<metrics, response_time_history, fault_state, log_history,
                   appended, last_fault_op, env>>

\* line 417
MetricsReadSales(t) ==
    /\ pc[t] = "m_sales"
    /\ SetLoc(t, [loc[t] EXCEPT !.out = [@ EXCEPT !.total_sales = metrics.total_sales]])
    /\ Goto(t, "m_counts")
    /\ UNCHANGED <<metrics, response_time_history, fault_state, log_history,
                   appended, last_fault_op, env>>

\* lines 420-421, and the response
MetricsReturn(t) ==
    /\ pc[t] = "m_counts"
    /\ SetLoc(t, [loc[t] EXCEPT
           !.out = [@ EXCEPT !.total_requests = metrics.total_requests,
                             !.error_requests = metrics.error_requests],
           !.resp = [status |-> 200, body |-> "metrics"]])
    /\ Goto(t, "done")
    /\ UNCHANGED <<metrics, response_time_history, fault_state, log_history,
                   appended, last_fault_op, env>>

(***************************************************************************)
(* get_services (src/app.py:585-688)                                       *)
(***************************************************************************)

\* lines 603-606: error_rate
StartServices(t) ==
    /\ Accepts(t)
    /\ SetLoc(t, [IdleLoc EXCEPT !.op = "services",
           !.out = [@ EXCEPT !.err_er = metrics.error_requests,
                             !.err_tr = metrics.total_requests]])
    /\ Goto(t, "sv_avg")
    /\ env' = [env EXCEPT !.calls = @ - 1]
    /\ UNCHANGED <<metrics, response_time_history, fault_state, log_history,
                   appended, last_fault_op>>

\* lines 608-618: avg_response_time, base_health
ServicesAverage(t) ==
    /\ pc[t] = "sv_avg"
    /\ SetLoc(t, [loc[t] EXCEPT !.out = [@ EXCEPT
           !.avg_trt = metrics.total_response_time,
           !.avg_tr = metrics.total_requests]])
    /\ Goto(t, "sv_db")
    /\ UNCHANGED <<metrics, response_time_history, fault_state, log_history,
                   appended, last_fault_op, env>>

\* lines 632-633: db_is_down, db_health
ServicesReadDatabase(t) ==
    /\ pc[t] = "sv_db"
    /\ SetLoc(t, [loc[t] EXCEPT !.out = [@ EXCEPT
           !.db_is_down = fault_state.database_down,
           !.db_health = DbHealth(fault_state.database_down,
                                  BaseHealth(loc[t].out.avg_trt, loc[t].out.avg_tr,
                                             loc[t].out.err_er, loc[t].out.err_tr))]])
    /\ Goto(t, "sv_ret")
    /\ UNCHANGED <<metrics, response_time_history, fault_state, log_history,
                   appended, last_fault_op, env>>

\* lines 636-688: the table of services
ServicesReturn(t) ==
    /\ pc[t] = "sv_ret"
    /\ SetLoc(t, [loc[t] EXCEPT
           !.out = [@ EXCEPT !.total_requests = metrics.total_requests,
                             !.total_orders = metrics.orders_created,
                             !.total_sales = metrics.total_sales],
           !.resp = [status |-> 200, body |-> "services"]])
    /\ Goto(t, "done")
    /\ UNCHANGED <<metrics, response_time_history, fault_state, log_history,
                   appended, last_fault_op, env>>

(***************************************************************************)
(* fault_status (src/app.py:546-562)                                       *)
(***************************************************************************)

\* line 555: fault_state["database_down"] or fault_state["high_latency"]
IsDegraded(fs) == fs.database_down \/ fs.high_latency

\* a list that names the latency fault whenever the system is degraded
ActiveFaults_Degraded(fs) ==
    (IF fs.database_down THEN <<"database_down">> ELSE <<>>)
        \o (IF IsDegraded(fs) THEN <<"high_latency">> ELSE <<>>)

\* lines 556-561: the names of the faults whose flag is set, in this order
ActiveFaults(fs) ==
    (IF fs.database_down THEN <<"database_down">> ELSE <<>>)
        \o (IF fs.high_latency THEN <<"high_latency">> ELSE <<>>)

\* line 555: is_degraded
StartStatus(t) ==
    /\ Accepts(t)
    /\ SetLoc(t, [IdleLoc EXCEPT !.op = "status", !.fs0 = fault_state,
           !.out = [@ EXCEPT !.is_degraded = IsDegraded(fault_state)]])
    /\ Goto(t, "st_active")
    /\ env' = [env EXCEPT !.calls = @ - 1]
    /\ UNCHANGED <<metrics, response_time_history, fault_state, log_history,
                   appended, last_fault_op>>

\* lines 556-561: active_faults
StatusActiveFaults(t) ==
    /\ pc[t] = "st_active"
    /\ SetLoc(t, [loc[t] EXCEPT !.out = [@ EXCEPT
           !.active_faults = ActiveFaults(fault_state)]])
    /\ Goto(t, "st_ret")
    /\ UNCHANGED <<metrics, response_time_history, fault_state, log_history,
                   appended, last_fault_op, env>>

\* lines 552-562: jsonify writes out the dictionary fault_state (line 554)
StatusReturn(t) ==
    /\ pc[t] = "st_ret"
    /\ SetLoc(t, [loc[t] EXCEPT
           !.out = [@ EXCEPT !.fault_state = fault_state],
           !.resp = [status |-> 200, body |-> "fault_status"]])
    /\ Goto(t, "done")
    /\ UNCHANGED <<metrics, response_time_history, fault_state, log_history,
                   appended, last_fault_op, env>>

(***************************************************************************)
(* get_logs (src/app.py:302-363)                                           *)
(***************************************************************************)
RECURSIVE Reverse(_)
Reverse(s) == IF s = <<>> THEN <<>> ELSE Append(Reverse(Tail(s)), Head(s))

\* the stored entries a logs response shows
LOGS_SHOWN == 20

\* line 325: reversed(log_history[-20:])
RecentLogs(h) == Reverse(LastN(h, LOGS_SHOWN))

\* lines 350-361: the alert on the error rate er/tr (in percent), if any
ErrorRateAlert(er, tr) ==
    IF tr > 0 /\ 100 * er > 5 * tr
        THEN <<LogEntry("error", "critical_error_rate", "synthetic", 0)>>
    ELSE IF tr > 0 /\ 100 * er > tr
        THEN <<LogEntry("warning", "elevated_error_rate", "synthetic", 0)>>
    ELSE <<>>

\* lines 335-347: the alerts on the faults; the one inserted last comes first
FaultAlerts(fs) ==
    (IF fs.high_latency
         THEN <<LogEntry("warning", "alert_high_latency", "synthetic", fs.latency_ms)>>
         ELSE <<>>)
    \o (IF fs.database_down
            THEN <<LogEntry("error", "alert_database_down", "synthetic", 0)>>
            ELSE <<>>)

\* lines 317-319: error_rate (avg_response_time of lines 312-314 is not used)
StartLogs(t) ==
    /\ Accepts(t)
    /\ SetLoc(t, [IdleLoc EXCEPT !.op = "logs",
           !.out = [@ EXCEPT !.err_er = metrics.error_requests,
                             !.err_tr = metrics.total_requests]])
    /\ Goto(t, "lg_hist")
    /\ env' = [env EXCEPT !.calls = @ - 1]
    /\ UNCHANGED <<metrics, response_time_history, fault_state, log_history,
                   appended, last_fault_op>>

\* lines 322-332: the most recent stored entries, newest first, then the
\* status entry
LogsReadHistory(t) ==
    /\ pc[t] = "lg_hist"
    /\ SetLoc(t, [loc[t] EXCEPT !.out = [@ EXCEPT
           !.logs = Append(RecentLogs(log_history),
                           LogEntry("info", "status", "synthetic", metrics.total_requests))]])
    /\ Goto(t, "lg_alerts")
    /\ UNCHANGED <<metrics, response_time_history, fault_state, log_history,
                   appended, last_fault_op, env>>

\* a logs view that stores the alerts it shows
LogsReturn_Persists(t) ==
    /\ pc[t] = "lg_alerts"
    /\ log_history' = log_history \o FaultAlerts(fault_state)
    /\ SetLoc(t, [loc[t] EXCEPT
           !.out = [@ EXCEPT
               !.logs = ErrorRateAlert(loc[t].out.err_er, loc[t].out.err_tr)
                            \o FaultAlerts(fault_state) \o loc[t].out.logs,
               !.fault_state = fault_state],
           !.resp = [status |-> 200, body |-> "logs"]])
    /\ Goto(t, "done")
    /\ UNCHANGED <<metrics, response_time_history, fault_state,
                   appended, last_fault_op, env>>

\* lines 335-363: the alerts are put in front, and the list is returned
LogsReturn(t) ==
    /\ pc[t] = "lg_alerts"
    /\ SetLoc(t, [loc[t] EXCEPT
           !.out = [@ EXCEPT
               !.logs = ErrorRateAlert(loc[t].out.err_er, loc[t].out.err_tr)
                            \o FaultAlerts(fault_state) \o loc[t].out.logs,
               !.fault_state = fault_state],
           !.resp = [status |-> 200, body |-> "logs"]])
    /\ Goto(t, "done")
    /\ UNCHANGED <<metrics, response_time_history, fault_state, log_history,
                   appended, last_fault_op, env>>

(***************************************************************************)
(* get_chart_data (src/app.py:565-582)                                     *)
(***************************************************************************)
RECURSIVE CountErrors(_)
CountErrors(h) ==
    IF h = <<>> THEN 0
    ELSE (IF h[1].is_error THEN 1 ELSE 0) + CountErrors(Tail(h))

\* lines 572-574 and 580: current_error_rate, in hundredths of a percent
StartChartData(t) ==
    /\ Accepts(t)
    /\ SetLoc(t, [IdleLoc EXCEPT !.op = "chart",
           !.out = [@ EXCEPT !.current_error_rate =
               RoundDiv(10000 * CountErrors(response_time_history),
                        IF response_time_history = <<>> THEN 1
                        ELSE Len(response_time_history))]])
    /\ Goto(t, "ch_ret")
    /\ env' = [env EXCEPT !.calls = @ - 1]
    /\ UNCHANGED <<metrics, response_time_history, fault_state, log_history,
                   appended, last_fault_op>>

\* lines 576-582: the series and data_points
ChartDataReturn(t) ==
    /\ pc[t] = "ch_ret"
    /\ SetLoc(t, [loc[t] EXCEPT
           !.out = [@ EXCEPT !.data_points = Len(response_time_history)],
           !.resp = [status |-> 200, body |-> "chart_data"]])
    /\ Goto(t, "done")
    /\ UNCHANGED <<metrics, response_time_history, fault_state, log_history,
                   appended, last_fault_op, env>>

\* the response has been sent; the thread is free again
Return(t) ==
    /\ pc[t] = "done"
    /\ last_fault_op' = IF loc[t].op \in {"inject", "recover"}
                        THEN [op |-> loc[t].op, ft |-> loc[t].ft]
                        ELSE last_fault_op
    /\ SetLoc(t, IdleLoc)
    /\ Goto(t, "idle")
    /\ UNCHANGED <<metrics, response_time_history, fault_state, log_history, appended, env>>

Step(t) ==
    \/ StartRequest(t)
    \/ StoreTotalRequests(t)
    \/ CheckLatencyFlag(t)
    \/ CheckLatencyMs(t)
    \/ Sleep(t)
    \/ CheckDatabaseDown(t)
    \/ ShortCircuitLoadErrors(t)
    \/ ShortCircuitStoreErrors(t)
    \/ ShortCircuitAppend(t)
    \/ ShortCircuitEvict(t)
    \/ AddLog(t)
    \/ AddLogBind(t)
    \/ CallPage(t)
    \/ CheckoutValidate(t)
    \/ CheckoutLoadOrders(t)
    \/ CheckoutStoreOrders(t)
    \/ CheckoutLoadSales(t)
    \/ CheckoutStoreSales(t)
    \/ SuccessLoadResponseTime(t)
    \/ SuccessStoreResponseTime(t)
    \/ SuccessAppend(t)
    \/ SuccessEvict(t)
    \/ ExceptLoadErrors(t)
    \/ ExceptStoreErrors(t)
    \/ InjectDatabaseDown(t)
    \/ InjectHighLatency(t)
    \/ InjectStoreLatency(t)
    \/ InjectUnknown(t)
    \/ InjectReturn(t)
    \/ StartRecover(t)
    \/ RecoverCheckDatabase(t)
    \/ RecoverStoreDatabase(t)
    \/ RecoverCheckLatency(t)
    \/ RecoverStoreFlag(t)
    \/ RecoverStoreLatency(t)
    \/ RecoverReturn(t)
    \/ StartMetrics(t)
    \/ MetricsErrorRate(t)
    \/ MetricsReadOrders(t)
    \/ MetricsReadSales(t)
    \/ MetricsReturn(t)
    \/ StartServices(t)
    \/ ServicesAverage(t)
    \/ ServicesReadDatabase(t)
    \/ ServicesReturn(t)
    \/ StartStatus(t)
    \/ StatusActiveFaults(t)
    \/ StatusReturn(t)
    \/ StartLogs(t)
    \/ LogsReadHistory(t)
    \/ LogsReturn(t)
    \/ StartChartData(t)
    \/ ChartDataReturn(t)
    \/ Return(t)

Next == \E t \in Threads : Step(t)

\* the threaded server
Spec == Init /\ [][Next]_vars

\* one request at a time: a single worker serves every call to completion
InitSerial ==
    /\ InitShared
    /\ env = [workers |-> {1}, calls |-> SerialCalls]

SpecSerial == InitSerial /\ [][Next]_vars

\* the threaded server under a burst of calls
InitBurst ==
    /\ InitShared
    /\ env = [workers |-> Threads, calls |-> BurstCalls]

SpecBurst == InitBurst /\ [][Next]_vars

\* the threaded server after MAX_HISTORY_POINTS requests, alternately a page
\* and a checkout refused for its payment data, have been served one by one
WarmHistory ==
    [i \in 1..MAX_HISTORY_POINTS |->
        Sample(Duration(IF i % 2 = 1 THEN "page" ELSE "checkout"), FALSE)]

RECURSIVE SumValues(_)
SumValues(h) == IF h = <<>> THEN 0 ELSE h[1].value + SumValues(Tail(h))

InitWarm ==
    /\ metrics = [InitMetrics EXCEPT !.total_requests = MAX_HISTORY_POINTS,
                                     !.total_response_time = SumValues(WarmHistory)]
    /\ response_time_history = WarmHistory
    /\ appended = WarmHistory
    /\ fault_state = InitFault
    /\ log_history = <<>>
    /\ pc = [t \in Threads |-> "idle"]
    /\ loc = [t \in Threads |-> IdleLoc]
    /\ last_fault_op = NoFaultOp
    /\ env = [workers |-> Threads, calls |-> WarmCalls]

SpecWarm == InitWarm /\ [][Next]_vars

\* the one-worker server after MAX_HISTORY_POINTS requests
InitWarmSerial ==
    /\ metrics = [InitMetrics EXCEPT !.total_requests = MAX_HISTORY_POINTS,
                                     !.total_response_time = SumValues(WarmHistory)]
    /\ response_time_history = WarmHistory
    /\ appended = WarmHistory
    /\ fault_state = InitFault
    /\ log_history = <<>>
    /\ pc = [t \in Threads |-> "idle"]
    /\ loc = [t \in Threads |-> IdleLoc]
    /\ last_fault_op = NoFaultOp
    /\ env = [workers |-> {1}, calls |-> WarmSerialCalls]

SpecWarmSerial == InitWarmSerial /\ [][Next]_vars

\* the log after fifty rounds of inject(database_down) and
\* recover(database_down): it is at its capacity
WarmLog ==
    [i \in 1..MAX_LOG_ENTRIES |->
        IF i % 2 = 1 THEN LogEntry("error", "fault_injected_database", "system", 0)
        ELSE LogEntry("success", "recovery_database", "system", 0)]

\* the threaded server after those fifty rounds, served one by one
InitFullLog ==
    /\ metrics = InitMetrics
    /\ response_time_history = <<>>
    /\ appended = <<>>
    /\ fault_state = InitFault
    /\ log_history = WarmLog
    /\ pc = [t \in Threads |-> "idle"]
    /\ loc = [t \in Threads |-> IdleLoc]
    /\ last_fault_op = [op |-> "recover", ft |-> "database_down"]
    /\ env = [workers |-> Threads, calls |-> WarmCalls]

SpecFullLog == InitFullLog /\ [][Next]_vars

(***************************************************************************)
(* Properties.                                                             *)
(***************************************************************************)
CartTotal == calculate_cart_totals(mock_cart).total

InTrail(t, e) == \E i \in 1..Len(loc[t].trail) : loc[t].trail[i] = e

RequestDone(t) == pc[t] = "done" /\ loc[t].op = "request"

C2_ErrorsAtMostTotal == metrics.error_requests <= metrics.total_requests

\* C3 as stated: whenever the metrics view computes system_health while
\* database_down is set, the value is 0.
C3_HealthZeroWhenDown ==
    \A t \in Threads :
        (loc[t].op = "metrics" /\ pc[t] \in {"m_orders", "m_sales", "m_counts", "done"}
            /\ loc[t].out.db_now) => loc[t].out.system_health = 0

\* C3 as amended: system_health follows from the error rate and the average
\* response time that the metrics view read, whatever database_down is: it is
\* 100 when no error is counted and the average is at most 200 ms, and 0 once
\* the error rate is 20% or more.  What is 0 whenever database_down is set is
\* the database health of the services view.
C3_HealthFromRates ==
    \A t \in Threads :
        /\ (loc[t].op = "metrics" /\ pc[t] \in {"m_orders", "m_sales", "m_counts", "done"}) =>
            LET o == loc[t].out IN
            /\ (o.err_er = 0 /\ o.avg_trt <= 200 * o.avg_tr) => o.system_health = 1000
            /\ (o.err_tr > 0 /\ 5 * o.err_er >= o.err_tr) => o.system_health = 0
        /\ (loc[t].op = "services" /\ pc[t] \in {"sv_ret", "done"}
                /\ loc[t].out.db_is_down) => loc[t].out.db_health = 0

\* the metrics view has reported full health during an outage
C3_Witness ==
    \E t \in Threads :
        /\ loc[t].op = "metrics" /\ pc[t] = "done"
        /\ loc[t].out.db_now /\ fault_state.database_down
        /\ loc[t].out.system_health = 1000

\* the threads that have appended their sample and not yet evicted
Evicting == {t \in Threads : pc[t] \in {"sc_evict", "ok_evict"}}

RecoverAllDone(t) ==
    pc[t] = "done" /\ loc[t].op = "recover" /\ loc[t].ft = "all"

\* C5: on the one-worker server, when recover("all") is done both flags are
\* false and latency_ms is 0; when the call before it was recover("all") too,
\* it reports nothing recovered and fault_state is as it found it.
C5_RecoverAllIdempotent ==
    \A t \in Threads :
        RecoverAllDone(t) =>
            /\ fault_state = InitFault
            /\ last_fault_op = [op |-> "recover", ft |-> "all"] =>
                   /\ loc[t].recovered = <<>>
                   /\ loc[t].resp.body = "nothing_to_recover"
                   /\ fault_state = loc[t].fs0

\* a second recover("all") is done, the first having cleared both faults
C5_Witness ==
    \E t \in Threads :
        /\ RecoverAllDone(t)
        /\ last_fault_op = [op |-> "recover", ft |-> "all"]
        /\ loc[t].recovered = <<>>
        /\ Len(log_history) = 4
        /\ log_history[3].message = "recovery_database"
        /\ log_history[4].message = "recovery_latency"

\* the request of thread t has passed the latency stage of the wrapper
PastLatency(t) == InTrail(t, "db_up") \/ InTrail(t, "db_down")

\* C6: on the one-worker server, when inject(high_latency, L) is done the
\* flag is set and latency_ms is L; a request that arrives while high_latency
\* is set with latency_ms = L > 0 has slept L ms when it reaches the
\* database_down check, and its recorded time is at least L; when
\* recover(high_latency) is done latency_ms is 0 and the flag false; a request
\* that arrives while the flag is false does not sleep.
C6_LatencyApplied ==
    \A t \in Threads :
        /\ (pc[t] = "done" /\ loc[t].op = "inject" /\ loc[t].ft = "high_latency") =>
               (fault_state.high_latency /\ fault_state.latency_ms = loc[t].lm)
        /\ (pc[t] = "done" /\ loc[t].op = "recover"
                /\ loc[t].ft \in {"high_latency", "all"}) =>
               (~fault_state.high_latency /\ fault_state.latency_ms = 0)
        /\ (loc[t].op = "request" /\ PastLatency(t)) =>
               /\ loc[t].elapsed >= loc[t].slept
               /\ loc[t].slept =
                      IF loc[t].fs0.high_latency /\ loc[t].fs0.latency_ms > 0
                      THEN loc[t].fs0.latency_ms ELSE 0

\* a request was delayed, then high_latency was recovered, and the request
\* served after that is done without having slept
C6_Witness ==
    \E t \in Threads :
        /\ RequestDone(t) /\ loc[t].slept = 0
        /\ last_fault_op = [op |-> "recover", ft |-> "high_latency"]
        /\ fault_state.latency_ms = 0
        /\ \E i \in 1..Len(appended) : appended[i].value >= DEFAULT_LATENCY_MS
        /\ \E i \in 1..Len(log_history) : log_history[i].message = "recovery_latency"

\* C7: within a request the sleep comes first: a sleep is never recorded
\* after the database_down check, and a request that arrives with
\* high_latency set, latency_ms > 0 and database_down set has slept
\* latency_ms before the check finds the outage and answers 503.
C7_LatencyBeforeShortCircuit ==
    \A t \in Threads :
        loc[t].op = "request" =>
            /\ \A i \in 1..Len(loc[t].trail) : loc[t].trail[i] = "sleep" => i = 1
            /\ (PastLatency(t) /\ loc[t].fs0.database_down /\ loc[t].fs0.high_latency
                    /\ loc[t].fs0.latency_ms > 0) =>
                   /\ loc[t].trail = <<"sleep", "db_down">>
                   /\ loc[t].slept = loc[t].fs0.latency_ms
                   /\ pc[t] = "done" => loc[t].resp.status = 503

\* a request slept and was then answered 503
C7_Witness ==
    \E t \in Threads :
        /\ RequestDone(t)
        /\ loc[t].trail = <<"sleep", "db_down">>
        /\ loc[t].slept > 0 /\ loc[t].resp.status = 503

\* C8: a step changes total_response_time only when it is taken by a request
\* whose wrapped view has returned; no step of a request that was
\* short-circuited or whose view raised changes it.
C8_ResponseTimeFrame ==
    [][metrics'.total_response_time # metrics.total_response_time =>
          \E t \in Threads :
              /\ pc'[t] # pc[t]
              /\ loc[t].op = "request"
              /\ InTrail(t, "returned")
              /\ ~InTrail(t, "raised") /\ ~InTrail(t, "db_down")]_vars

\* a request whose view raised is done, and the time of another is accounted
C8_Witness ==
    \E t \in Threads :
        /\ RequestDone(t) /\ InTrail(t, "raised")
        /\ metrics.error_requests > 0
        /\ metrics.total_response_time > 0

\* C9: every metrics response shows total_sales = total_orders x cart total.
C9_OrderUpdateAtomic ==
    \A t \in Threads :
        (pc[t] = "done" /\ loc[t].op = "metrics") =>
            loc[t].out.total_sales = loc[t].out.total_orders * CartTotal

Counted == {t \in Threads : loc[t].op = "request" /\ pc[t] # "w_tr_store"}

\* the requests that have counted their failure in error_requests
Failed ==
    {t \in Threads :
        /\ loc[t].op = "request"
        /\ \/ pc[t] \in {"sc_append", "sc_evict"}
           \/ pc[t] \in {"log", "log_bind", "done"}
                /\ (InTrail(t, "db_down") \/ InTrail(t, "raised"))}

\* C11: no increment of a counter is lost: total_requests is at least what a
\* request found on entry plus the number of requests that have counted
\* themselves since, itself included, and error_requests is at least what it
\* found plus the number of requests that have counted a failure since.
C11_NoLostUpdate ==
    \A t \in Threads :
        /\ t \in Counted =>
               metrics.total_requests >=
                   loc[t].tr0 + Cardinality({u \in Counted : loc[u].tr0 >= loc[t].tr0})
        /\ t \in Failed =>
               metrics.error_requests >=
                   loc[t].er0 + Cardinality({u \in Failed : loc[u].er0 >= loc[t].er0})

\* thread t takes the step
Moves(t) == pc'[t] # pc[t]

\* C12: an inject call with a fault_type other than database_down and
\* high_latency changes none of fault_state, metrics and log_history in any
\* of its steps, and is answered 400.
C12_UnknownFaultRejected ==
    [][\A t \in Threads :
          (Moves(t) /\ loc'[t].op = "inject" /\ loc'[t].ft = "bogus") =>
              /\ fault_state' = fault_state
              /\ metrics' = metrics
              /\ log_history' = log_history
              /\ response_time_history' = response_time_history
              /\ loc'[t].resp.status = 400]_vars

\* an inject call with an unknown fault_type has been answered 400 while a
\* fault was active, and the fault is still what it was
C12_Witness ==
    \E t \in Threads :
        /\ pc[t] = "done" /\ loc[t].op = "inject" /\ loc[t].ft = "bogus"
        /\ loc[t].resp.status = 400
        /\ fault_state.high_latency /\ fault_state = loc[t].fs0
        /\ Len(log_history) = 1

\* thread t takes a step of an inject call for a fault that was already
\* active when the call arrived
ReInjects(t) ==
    /\ Moves(t) /\ loc'[t].op = "inject"
    /\ \/ loc'[t].ft = "database_down" /\ loc'[t].fs0.database_down
       \/ loc'[t].ft = "high_latency" /\ loc'[t].fs0.high_latency

\* C13 as stated: no step of a re-injection changes anything in the shared
\* state but latency_ms.
C13_ReinjectChangesNothing ==
    [][\A t \in Threads :
          ReInjects(t) =>
              /\ fault_state' = [fault_state EXCEPT !.latency_ms = fault_state'.latency_ms]
              /\ metrics' = metrics
              /\ response_time_history' = response_time_history
              /\ log_history' = log_history]_vars

\* C13 as amended: a re-injection leaves the flags of fault_state, metrics
\* and response_time_history unchanged, and latency_ms too unless it is a
\* re-injection of high_latency, which sets it to the value passed; but
\* every inject call, a re-injection included, appends its entry to
\* log_history.  On the one-worker server, when inject(database_down) is
\* done and the fault call before it was inject(database_down) too,
\* fault_state is what the call found and log_history ends with its entry.
C13_ReinjectKeepsFaultState ==
    /\ [][\A t \in Threads :
            ReInjects(t) =>
                /\ fault_state'.database_down = fault_state.database_down
                /\ fault_state'.high_latency = fault_state.high_latency
                /\ fault_state'.latency_ms # fault_state.latency_ms =>
                       (loc[t].ft = "high_latency" /\ fault_state'.latency_ms = loc[t].lm)
                /\ metrics' = metrics
                /\ response_time_history' = response_time_history
                /\ log_history' # log_history =>
                       log_history' = Append(log_history, loc'[t].entry)]_vars
    /\ [](\A t \in Threads :
            (pc[t] = "done" /\ loc[t].op = "inject" /\ loc[t].ft = "database_down"
                /\ last_fault_op = [op |-> "inject", ft |-> "database_down"]) =>
                /\ fault_state = loc[t].fs0
                /\ log_history # <<>>
                /\ log_history[Len(log_history)] = loc[t].entry)

\* inject(database_down) is done twice in a row: the flag is set, and the
\* log holds the entries of both calls
C13_Witness ==
    \E t \in Threads :
        /\ pc[t] = "done" /\ loc[t].op = "inject" /\ loc[t].ft = "database_down"
        /\ last_fault_op = [op |-> "inject", ft |-> "database_down"]
        /\ loc[t].fs0.database_down /\ fault_state.database_down
        /\ log_history = <<loc[t].entry, loc[t].entry>>

\* the status view of thread t has its response
StatusDone(t) == pc[t] = "done" /\ loc[t].op = "status"

OtherFault(f) == IF f = "database_down" THEN "high_latency" ELSE "database_down"

C16_HandlerErrorPropagates ==
    \A t \in Threads :
        (RequestDone(t) /\ InTrail(t, "raised")) =>
            /\ metrics.error_requests = loc[t].er0 + 1
            /\ log_history # <<>>
            /\ log_history[Len(log_history)] = LogEntry("error", "request_failed", "error", 0)
            /\ loc[t].resp = [status |-> 500, body |-> "raised"]
            /\ loc[t].trail[Len(loc[t].trail)] = "raised"

\* the second request whose view raised is done: two errors are counted and
\* two entries logged
C16_Witness ==
    \E t \in Threads :
        /\ RequestDone(t) /\ InTrail(t, "raised")
        /\ loc[t].er0 = 1 /\ metrics.error_requests = 2
        /\ Len(log_history) = 2
        /\ log_history[2].message = "request_failed"
        /\ loc[t].resp.body = "raised"

\* C17: when a request that got as far as the database_down check is done
\* with a 5xx response, error_requests is more than when it arrived and the
\* log holds an error entry.
C17_FailuresRecorded ==
    \A t \in Threads :
        (RequestDone(t) /\ PastLatency(t) /\ loc[t].resp.status >= 500) =>
            /\ metrics.error_requests > loc[t].er0
            /\ \E i \in 1..Len(log_history) : log_history[i].level = "error"

\* the views that only read
ReadOps == {"metrics", "services", "logs", "chart", "status"}

\* C18: a step changes fault_state only when it is taken by an inject or a
\* recover call; no step of a request, whether it is answered by its view,
\* short-circuited or raising, and no step of a read view changes any of
\* database_down, high_latency and latency_ms.
C18_FaultStateFrame ==
    [][\A t \in Threads :
          (Moves(t) /\ (loc[t].op \in ReadOps \cup {"request"}
                          \/ loc'[t].op \in ReadOps \cup {"request"})) =>
              fault_state' = fault_state]_vars

\* a request has been short-circuited and logged: fault_state is still what
\* inject(database_down) left
C18_Witness ==
    \E t \in Threads :
        /\ RequestDone(t) /\ InTrail(t, "db_down")
        /\ fault_state = [InitFault EXCEPT !.database_down = TRUE]
        /\ last_fault_op = [op |-> "inject", ft |-> "database_down"]
        /\ Len(log_history) = 2
        /\ log_history[2].message = "db_connection_failed"

\* C19: no step of a read view (logs, metrics, services, chart-data, status)
\* changes metrics, response_time_history or log_history.  The logs view
\* takes the most recent LOGS_SHOWN stored entries, newest first, and puts
\* the status entry behind them; its response is those with the alerts on
\* the error rate and on the faults in front.  No alert or status entry is
\* ever stored in log_history.
C19_ReadsAreSideEffectFree ==
    /\ [][\A t \in Threads :
            /\ (Moves(t) /\ (loc[t].op \in ReadOps \/ loc'[t].op \in ReadOps)) =>
                   /\ metrics' = metrics
                   /\ response_time_history' = response_time_history
                   /\ log_history' = log_history
            /\ (Moves(t) /\ pc[t] = "lg_hist") =>
                   /\ Len(loc'[t].out.logs) = Min(Len(log_history), LOGS_SHOWN) + 1
                   /\ \A i \in 1..Min(Len(log_history), LOGS_SHOWN) :
                          loc'[t].out.logs[i] = log_history[Len(log_history) + 1 - i]
            /\ (Moves(t) /\ pc[t] = "lg_alerts") =>
                   loc'[t].out.logs =
                       ErrorRateAlert(loc[t].out.err_er, loc[t].out.err_tr)
                           \o FaultAlerts(fault_state) \o loc[t].out.logs]_vars
    /\ [](\A i \in 1..Len(log_history) : log_history[i].category # "synthetic")

\* a logs response during an outage: the alert on the outage, the stored
\* entry of the inject, and the status entry; the log holds the one entry
C19_Witness ==
    \E t \in Threads :
        /\ pc[t] = "done" /\ loc[t].op = "logs"
        /\ Len(log_history) = 1
        /\ Len(loc[t].out.logs) = 3
        /\ loc[t].out.logs[1].message = "alert_database_down"
        /\ loc[t].out.logs[2] = log_history[1]
        /\ loc[t].out.logs[3].message = "status"

\* the threads that are inside add_log
Logging == {t \in Threads : pc[t] = "log_bind"}

\* C20: log_history changes only by the append of the entry of the call that
\* logs, or by dropping the oldest entries beyond MAX_LOG_ENTRIES, so that it
\* always is the most recent appended entries in the order of their append;
\* and it holds at most MAX_LOG_ENTRIES entries whenever no thread is inside
\* add_log.
C20_LogBounded ==
    /\ [][log_history' # log_history =>
            \E t \in Threads :
                /\ Moves(t)
                /\ \/ log_history' = Append(log_history, loc[t].entry)
                   \/ log_history' = LastN(log_history, MAX_LOG_ENTRIES)]_vars
    /\ [](Logging = {} => Len(log_history) <= MAX_LOG_ENTRIES)

(***************************************************************************)
(* The error rate and the error budgets of the metrics view.               *)
(***************************************************************************)
\* the metrics view of thread t has computed its error rate
RateComputed(t) ==
    loc[t].op = "metrics" /\ pc[t] \in {"m_orders", "m_sales", "m_counts", "done"}

Abs(n) == IF n < 0 THEN -n ELSE n

\* C21 as stated: the error rate the metrics view reports is
\* error_requests / total_requests x 100 (0 without requests), except that it
\* is 100 whenever database_down is set.
C21_ErrorRateForcedWhenDown ==
    \A t \in Threads :
        RateComputed(t) =>
            LET o == loc[t].out IN
            IF o.db_now THEN o.error_rate = 10000
            ELSE IF o.err_tr > 0 THEN 2 * Abs(o.error_rate * o.err_tr - 10000 * o.err_er) <= o.err_tr
            ELSE o.error_rate = 0

\* C21 as amended: the reported error rate is error_requests / total_requests
\* x 100 of the counters as they stand (rounded to two decimals) when
\* total_requests > 0 and 0 otherwise, whether database_down is set or not.
C21_ErrorRateFromCounters ==
    \A t \in Threads :
        RateComputed(t) =>
            LET o == loc[t].out IN
            /\ o.err_er = metrics.error_requests /\ o.err_tr = metrics.total_requests
            /\ IF metrics.total_requests > 0
               THEN 2 * Abs(o.error_rate * metrics.total_requests
                            - 10000 * metrics.error_requests) <= metrics.total_requests
               ELSE o.error_rate = 0

\* during an outage the metrics view has reported an error rate of 50%: one
\* request of two had failed
C21_Witness ==
    \E t \in Threads :
        /\ loc[t].op = "metrics" /\ pc[t] = "done"
        /\ loc[t].out.db_now /\ fault_state.database_down
        /\ metrics.total_requests = 2 /\ metrics.error_requests = 1
        /\ loc[t].out.error_rate = 5000

\* the counters of the metric states that the warm server can be in
MetricStates ==
    [er : 0..WarmSerialCalls,
     tr : MAX_HISTORY_POINTS..(MAX_HISTORY_POINTS + WarmSerialCalls)]

\* the error rate of counters <<er1, tr1>> is at most that of <<er2, tr2>>
RateAtMost(er1, tr1, er2, tr2) ==
    (IF tr1 > 0 THEN er1 ELSE 0) * Max(tr2, 1) <= (IF tr2 > 0 THEN er2 ELSE 0) * Max(tr1, 1)

\* the windows of a metrics response: <<factor, remainder reported>>
Windows(o) ==
    {<<MONTHLY_FACTOR, o.monthly_remaining>>, <<QUARTERLY_FACTOR, o.quarterly_remaining>>,
     <<ANNUAL_FACTOR, o.annual_remaining>>}

\* C22: each error-budget remainder the metrics view reports is
\* max(0, 100 - error_rate x k) for k = 10, 5, 2 (rounded to one decimal),
\* lies in [0, 100], and is non-increasing in the error rate: a metric state
\* with an error rate at least as high has a remainder at most as high, and
\* the other way round.
C22_BudgetRemainders ==
    \A t \in Threads :
        RateComputed(t) =>
            LET o == loc[t].out
                er == o.err_er
                tr == o.err_tr
            IN  \A w \in Windows(o) :
                    /\ 0 <= w[2] /\ w[2] <= 1000
                    /\ IF tr > 0
                       THEN 2 * Abs(w[2] * tr - 10 * Max(0, 100 * tr - 100 * er * w[1])) <= tr
                       ELSE w[2] = 1000
                    /\ \A c \in MetricStates :
                           /\ RateAtMost(er, tr, c.er, c.tr) => BudgetRemaining(c.er, c.tr, w[1]) <= w[2]
                           /\ RateAtMost(c.er, c.tr, er, tr) => BudgetRemaining(c.er, c.tr, w[1]) >= w[2]
                    /\ \A u \in Threads :
                           (RateComputed(u) /\ RateAtMost(er, tr, loc[u].out.err_er, loc[u].out.err_tr)) =>
                               \A v \in Windows(loc[u].out) : v[1] = w[1] => v[2] <= w[2]

\* the metrics view has reported the budgets of an error rate of 1 in 21:
\* 52.4, 76.2 and 90.5
C22_Witness ==
    \E t \in Threads :
        /\ loc[t].op = "metrics" /\ pc[t] = "done"
        /\ loc[t].out.err_er = 1 /\ loc[t].out.err_tr = MAX_HISTORY_POINTS + 1
        /\ loc[t].out.monthly_remaining = 524
        /\ loc[t].out.quarterly_remaining = 762
        /\ loc[t].out.annual_remaining = 905

(***************************************************************************)
(* Feature toggles.                                                        *)
(***************************************************************************)
\* C23: when the toggles file is missing or malformed, loading the toggles
\* raises no error and every toggle evaluates to false, with either loader;
\* no cash-on-delivery order is then accepted, and a route that requires a
\* feature is refused (404) rather than failing.
C23_TogglesFailSafe ==
    \A t \in Threads :
        loc[t].toggles_file \in {"missing", "malformed"} =>
            LET file == loc[t].toggles_file IN
            /\ ~load_toggles(file).raised
            /\ \A n \in ToggleNames : ~load_toggles(file).toggles[n]
            /\ loc[t].payment_method # "cod"
            /\ ~flags_load_toggles(file).raised
            /\ \A n \in ToggleNames :
                   /\ is_toggle_enabled(file, n) = "disabled"
                   /\ feature_required(file, n) = "abort_404"

(***************************************************************************)
(* The fault state machine.                                                *)
(***************************************************************************)
\* C24: latency_ms is a non-negative integer in every reachable fault state,
\* whatever latency_ms the operator posts to inject(high_latency).
C24_LatencyNonNegative == fault_state.latency_ms \in Nat

\* the flag combination of a fault state
Flags(fs) == <<fs.database_down, fs.high_latency>>

\* the inject or recover call of thread t, with fault type ft, has returned
FaultOpDone(t, op, ft) ==
    pc[t] = "done" /\ loc[t].op = op /\ loc[t].ft = ft /\ loc[t].resp.status = 200

\* C25: the flags (database_down, high_latency) take four combinations; from
\* the combination it starts in, inject(database_down) leads to the one with
\* database_down set and inject(high_latency) to the one with high_latency
\* set, so each combination is reached from all-clear by injects; no
\* combination is terminal: in each of them the server accepts a recover,
\* recover(all) leads to all-clear and recover of one fault clears its flag.
C25_FourStatesNoneTerminal ==
    /\ Flags(fault_state) \in BOOLEAN \X BOOLEAN
    /\ \A t \in Threads :
        /\ Accepts(t) => (ENABLED InjectDatabaseDown(t) /\ ENABLED InjectHighLatency(t)
                          /\ ENABLED StartRecover(t))
        /\ FaultOpDone(t, "inject", "database_down") =>
               Flags(fault_state) = <<TRUE, loc[t].fs0.high_latency>>
        /\ FaultOpDone(t, "inject", "high_latency") =>
               Flags(fault_state) = <<loc[t].fs0.database_down, TRUE>>
        /\ FaultOpDone(t, "recover", "database_down") =>
               Flags(fault_state) = <<FALSE, loc[t].fs0.high_latency>>
        /\ FaultOpDone(t, "recover", "high_latency") =>
               Flags(fault_state) = <<loc[t].fs0.database_down, FALSE>>
        /\ FaultOpDone(t, "recover", "all") => Flags(fault_state) = <<FALSE, FALSE>>

\* two injects have led from all-clear to both flags set, and recover(all)
\* has led back to all-clear
C25_Witness ==
    \E t \in Threads :
        /\ FaultOpDone(t, "recover", "all")
        /\ Flags(loc[t].fs0) = <<TRUE, TRUE>>
        /\ Flags(fault_state) = <<FALSE, FALSE>>
        /\ Len(log_history) = 4
        /\ log_history[1].message \in {"fault_injected_database", "fault_injected_latency"}
        /\ log_history[2].message \in {"fault_injected_database", "fault_injected_latency"}

\* C26: in every reachable state, high_latency = FALSE implies
\* latency_ms = 0.
C26_LatencyOnlyWhileFlagSet == ~fault_state.high_latency => fault_state.latency_ms = 0

(***************************************************************************)
(* Orders and samples.                                                     *)
(***************************************************************************)
\* C27: a checkout request that starts while database_down is set changes
\* neither orders_created nor total_sales, and no step of any operation
\* decreases orders_created or total_sales.
C27_NoOrderDuringOutage ==
    [][/\ metrics'.orders_created >= metrics.orders_created
       /\ metrics'.total_sales >= metrics.total_sales
       /\ \A t \in Threads :
              (Moves(t) /\ loc[t].op = "request" /\ loc[t].fs0.database_down) =>
                  /\ metrics'.orders_created = metrics.orders_created
                  /\ metrics'.total_sales = metrics.total_sales]_vars

\* C28: a request short-circuited by database_down appends exactly one
\* sample, with is_error = TRUE; a request whose view returns appends exactly
\* one sample, with is_error = FALSE; a request whose view raises appends
\* none; and the is_error samples of the history never outnumber
\* error_requests.
C28_SampleAccounting ==
    /\ [][\A t \in Threads :
              (Moves(t) /\ loc[t].op = "request") =>
                  IF pc[t] = "sc_append"
                  THEN InTrail(t, "db_down")
                       /\ appended' = Append(appended, Sample(loc[t].elapsed, TRUE))
                  ELSE IF pc[t] = "ok_append"
                  THEN InTrail(t, "returned")
                       /\ appended' = Append(appended, Sample(loc[t].elapsed, FALSE))
                  ELSE appended' = appended]_vars
    /\ [](\A t \in Threads :
              RequestDone(t) =>
                  /\ InTrail(t, "db_down") =>
                         \E i \in DOMAIN appended : appended[i] = Sample(loc[t].elapsed, TRUE)
                  /\ InTrail(t, "returned") =>
                         \E i \in DOMAIN appended : appended[i] = Sample(loc[t].elapsed, FALSE)
                  /\ InTrail(t, "raised") => loc[t].resp.status = 500)
    /\ [](CountErrors(response_time_history) <= metrics.error_requests)
====
